---- MODULE Spec2Model ----
(***************************************************************************)
(* Routing instability detector (scripts/find_routing_instabilities.py).   *)
(*                                                                         *)
(* Number representation.  The program works on floats; the model keeps    *)
(* every quantity as an integer in a fixed unit:                           *)
(*   - a coordinate is <<lng, lat>> in units of 1e-5 degree, taken         *)
(*     relative to the station (the station is <<0, 0>>);                  *)
(*   - planar (scaled) coordinates and haversine distances are in cm;      *)
(*   - total_distance is in decimetres;                                    *)
(*   - a bearing is a whole number of degrees;                             *)
(*   - a fraction (route_overlap, route_distance_ratio, overlap_threshold) *)
(*     is a pair <<numerator, denominator>> and is compared by cross       *)
(*     multiplication.                                                     *)
(* Python indexes lists from 0, the model from 1; zone ids written by      *)
(* export_results are shifted back to Python's 0-based ids.                *)
(***************************************************************************)
EXTENDS Integers, Sequences, FiniteSets, TLC

VARIABLES
    pc,                 \* position of main()
    engine,             \* args.engine
    error,              \* how the run ended early: exit status or uncaught exception
    address_file,       \* the address file found on disk, if any
    addresses,          \* loaded features (main: addresses)
    limit,              \* args.limit
    test_route,         \* main: test_route, once the probe has been answered
    feat,               \* position of the per-address loop in addresses
    requests,           \* number of route requests issued so far
    signatures,         \* main: signatures
    coords,             \* main: coords
    last_answer,        \* history: the provider's answer to the latest per-address request
    bearing_threshold,  \* args.bearing_threshold
    overlap_threshold,  \* args.overlap_threshold, a fraction
    max_neighbor_distance, \* args.max_neighbor_distance, metres
    leaf_reversed,      \* whether the KD-tree stores its points in reverse index order
    tree,               \* find_instabilities: tree
    i,                  \* find_instabilities: outer loop index
    neighbor_indices,   \* find_instabilities: what is left of the inner loop
    checked_pairs,      \* find_instabilities: checked_pairs
    instabilities,      \* find_instabilities / main: instabilities
    evaluated,          \* history: the metrics and verdict computed for each evaluated pair
    exported,           \* the collection written by export_results
    run,                \* how many times the classifier has been started
    first_result        \* the sorted zone list of the first classifier run

vars == <<pc, engine, error, address_file, addresses, limit, feat, requests, signatures,
          coords, last_answer, test_route, bearing_threshold, overlap_threshold, max_neighbor_distance,
          leaf_reversed, tree, i, neighbor_indices, checked_pairs, instabilities,
          evaluated, exported, run, first_result>>

\* the inputs of a run, and the state of the per-address loop
inputs == <<engine, address_file, limit, bearing_threshold, overlap_threshold,
            max_neighbor_distance, leaf_reversed>>
loopVars == <<addresses, feat, requests, signatures, coords, last_answer, test_route>>

(***************************************************************************)
(* Bounds of the model.                                                    *)
(***************************************************************************)
MaxAddrs == 3

(***************************************************************************)
(* Units and program constants.                                            *)
(***************************************************************************)
DegUnit == 100000       \* coordinate units per degree
CmPerM == 100
DmPerM == 10
lat_scale == 111000
lng_scale == 85000
OverlapThresholdM == 50 \* calculate_route_overlap: threshold_m
CriticalBearing == 150
ModerateBearing == 45
SlightBearing == 30

Abs(x) == IF x < 0 THEN -x ELSE x
Max(a, b) == IF a >= b THEN a ELSE b
Min(a, b) == IF a <= b THEN a ELSE b

\* a < b, a <= b for fractions with positive denominators
FracLt(a, b) == a[1] * b[2] < b[1] * a[2]
FracLe(a, b) == a[1] * b[2] <= b[1] * a[2]

\* integer square root, by bisection on lo..hi
RECURSIVE Bisect(_, _, _)
Bisect(n, lo, hi) ==
    IF lo >= hi THEN lo
    ELSE LET mid == (lo + hi + 1) \div 2
         IN IF mid * mid <= n THEN Bisect(n, mid, hi) ELSE Bisect(n, lo, mid - 1)
ISqrt(n) == Bisect(n, 0, 46340)

(***************************************************************************)
(* haversine_distance.  All points of the model lie within a few hundred   *)
(* metres of the station (39.03 N), where the great-circle distance is     *)
(* R*sqrt(dlat^2 + cos(lat)^2 * dlng^2) to within a centimetre:            *)
(* R*pi/180 = 111195 m per degree of latitude, times cos(39.03 deg) =      *)
(* 86378 m per degree of longitude; per coordinate unit that is 1112 mm    *)
(* and 864 mm.  The two legs are cut to whole centimetres.                 *)
(***************************************************************************)
HavLatMm == 1112
HavLngMm == 864
MmPerCm == 10
NorthCm(p1, p2) == (Abs(p1[2] - p2[2]) * HavLatMm) \div MmPerCm
EastCm(p1, p2) == (Abs(p1[1] - p2[1]) * HavLngMm) \div MmPerCm
haversine_sq(p1, p2) ==
    EastCm(p1, p2) * EastCm(p1, p2) + NorthCm(p1, p2) * NorthCm(p1, p2)
haversine_distance(p1, p2) == ISqrt(haversine_sq(p1, p2))

(***************************************************************************)
(* calculate_bearing, to the nearest whole degree.  TanHalf[k + 1] is      *)
(* 10000 * tan((k + 0.5) degrees); the angle from the north axis is found  *)
(* in the first octant and mirrored into the others, as atan2 does.        *)
(***************************************************************************)
TanHalf ==
    <<87, 262, 437, 612, 787, 963, 1139, 1317, 1495, 1673, 1853, 2035, 2217,
      2401, 2586, 2773, 2962, 3153, 3346, 3541, 3739, 3939, 4142, 4348, 4557,
      4770, 4986, 5206, 5430, 5658, 5890, 6128, 6371, 6619, 6873, 7133, 7400,
      7673, 7954, 8243, 8541, 8847, 9163, 9490, 9827, 10176>>

RECURSIVE AtanFrom(_, _, _)
AtanFrom(a, b, k) ==
    IF k >= 45 \/ a * 10000 < TanHalf[k + 1] * b THEN k ELSE AtanFrom(a, b, k + 1)

\* the angle, in degrees, between north and the direction (east x, north y), x, y >= 0
AngleFromNorth(x, y) ==
    IF x = 0 THEN 0
    ELSE IF y = 0 THEN 90
    ELSE IF x <= y THEN AtanFrom(x, y, 0)
    ELSE 90 - AtanFrom(y, x, 0)

calculate_bearing(p1, p2) ==
    LET x == EastCm(p1, p2)
        y == NorthCm(p1, p2)
        east == p2[1] >= p1[1]
        north == p2[2] >= p1[2]
        a == AngleFromNorth(x, y)
        bearing == IF east /\ north THEN a
                   ELSE IF east THEN 180 - a
                   ELSE IF north THEN 0 - a
                   ELSE a - 180
    IN (bearing + 360) % 360

(***************************************************************************)
(* RouteSignature and the failed signature of extract_route_signature.     *)
(* address_id and address are both the position of the feature in the      *)
(* address list (the default "Address <i>" / str(i) of main).              *)
(***************************************************************************)
RouteSignature(id, loc, bearing, first, roads, geom, dist, dur, uturn, ok, err) ==
    [address_id |-> id, address |-> id, location |-> loc,
     initial_bearing |-> bearing, first_road |-> first, route_roads |-> roads,
     route_geometry |-> geom, total_distance |-> dist, total_duration |-> dur,
     has_uturn |-> uturn, success |-> ok, error |-> err]

FailedSignatureNoLocation(id, loc) ==
    RouteSignature(id, <<0, 0>>, 0, "", <<>>, <<>>, 0, 0, FALSE, FALSE, "Failed to get route")

\* lines 216-231
FailedSignature(id, loc) ==
    RouteSignature(id, loc, 0, "", <<>>, <<>>, 0, 0, FALSE, FALSE, "Failed to get route")

(***************************************************************************)
(* calculate_route_overlap: the vertices of route1 within threshold_m of   *)
(* some vertex of route2, over the vertices of route1.                     *)
(***************************************************************************)
WithinThreshold(p1, p2, threshold_m) ==
    haversine_sq(p1, p2) <= (threshold_m * CmPerM) * (threshold_m * CmPerM)

\* lines 295-299: the inner loop over route2 from vertex m on, left at the
\* first vertex within the threshold
RECURSIVE AnyWithinSkipFirst(_, _, _)
AnyWithinSkipFirst(p1, route2, m) ==
    IF m + 1 > Len(route2) THEN FALSE
    ELSE IF WithinThreshold(p1, route2[m + 1], OverlapThresholdM) THEN TRUE
    ELSE AnyWithinSkipFirst(p1, route2, m + 1)

RECURSIVE AnyWithin(_, _, _)
AnyWithin(p1, route2, m) ==
    IF m > Len(route2) THEN FALSE
    ELSE IF WithinThreshold(p1, route2[m], OverlapThresholdM) THEN TRUE
    ELSE AnyWithin(p1, route2, m + 1)

\* lines 295-299 without the break: every vertex of route2 within the threshold counts
RECURSIVE MatchesOfNoBreak(_, _, _)
MatchesOfNoBreak(p1, route2, m) ==
    IF m > Len(route2) THEN 0
    ELSE (IF WithinThreshold(p1, route2[m], OverlapThresholdM) THEN 1 ELSE 0)
         + MatchesOfNoBreak(p1, route2, m + 1)

\* what one vertex of route1 adds to matches
MatchesOf(p1, route2, m) == IF AnyWithin(p1, route2, m) THEN 1 ELSE 0

\* lines 293-299: the outer loop over route1 from vertex k on
RECURSIVE CountMatches(_, _, _, _)
CountMatches(route1, route2, k, matches) ==
    IF k > Len(route1) THEN matches
    ELSE CountMatches(route1, route2, k + 1, matches + MatchesOf(route1[k], route2, 1))

\* the fraction matches / total as <<matches, total>>; 0.0 is <<0, 1>>
calculate_route_overlap(route1, route2) ==
    IF route1 = <<>> \/ route2 = <<>> THEN <<0, 1>>
    ELSE <<CountMatches(route1, route2, 1, 0), Len(route1)>>

(***************************************************************************)
(* The metrics of one pair (find_instabilities, lines 349-371).            *)
(***************************************************************************)
Prefix(s, n) == SubSeq(s, 1, Min(n, Len(s)))

BearingDiffNoWrap(b1, b2) == Abs(b1 - b2)

\* lines 356-358
BearingDiff(b1, b2) ==
    LET d == Abs(b1 - b2) IN IF d > 180 THEN 360 - d ELSE d

DistanceRatioNoFloor(d1, d2) == <<Max(d1, d2), Min(d1, d2)>>

DistanceRatio(d1, d2) == <<Max(d1, d2), Max(Min(d1, d2), DmPerM)>>

RoadsDifferWhole(r1, r2) == r1 # r2

RoadsDiffer(r1, r2) == Prefix(r1, 3) # Prefix(r2, 3)

UturnMismatch(sig1, sig2) == sig1.has_uturn # sig2.has_uturn

(***************************************************************************)
(* The rule cascade (lines 373-399).  Each rule is a condition and a       *)
(* severity; Cascade tries them in the order of the if/elif chain.         *)
(***************************************************************************)
Rule1HardCoded(bearing_diff, bt) == bearing_diff >= 90
Rule1(bearing_diff, bt) == bearing_diff >= bt

Rule1SeverityStrict(bearing_diff) ==
    IF bearing_diff > CriticalBearing THEN "critical" ELSE "high"
Rule1Severity(bearing_diff) ==
    IF bearing_diff >= CriticalBearing THEN "critical" ELSE "high"

Rule2SeverityWrongRatio(distance_ratio) ==
    IF FracLt(<<15, 10>>, distance_ratio) THEN "critical" ELSE "high"
Rule2Severity(distance_ratio) ==
    IF FracLt(<<13, 10>>, distance_ratio) THEN "critical" ELSE "high"

Rule3(roads_differ, distance_ratio) ==
    roads_differ /\ FracLt(<<12, 10>>, distance_ratio)
Rule3Severity(distance_ratio) ==
    IF FracLt(<<14, 10>>, distance_ratio) THEN "high" ELSE "medium"

Rule4(bearing_diff, overlap) ==
    bearing_diff >= ModerateBearing /\ FracLt(overlap, <<4, 10>>)

Rule5OverlapOnly(bearing_diff, overlap, ot) == FracLt(overlap, ot)

Rule5(bearing_diff, overlap, ot) ==
    bearing_diff >= SlightBearing /\ FracLt(overlap, ot)

Verdict(flag, sev, why) == [is_instability |-> flag, severity |-> sev, reason |-> why]

CascadeUturnFirst(bearing_diff, overlap, distance_ratio, roads_differ, uturn_mismatch, bt, ot) ==
    IF uturn_mismatch THEN
        Verdict(TRUE, Rule2Severity(distance_ratio), "U-turn route mismatch")
    ELSE IF Rule1(bearing_diff, bt) THEN
        Verdict(TRUE, Rule1Severity(bearing_diff), "Opposite initial direction")
    ELSE IF Rule3(roads_differ, distance_ratio) THEN
        Verdict(TRUE, Rule3Severity(distance_ratio), "Different roads")
    ELSE IF Rule4(bearing_diff, overlap) THEN
        Verdict(TRUE, "high", "Bearing diff + low overlap")
    ELSE IF Rule5(bearing_diff, overlap, ot) THEN
        Verdict(TRUE, "medium", "Bearing diff + low overlap")
    ELSE Verdict(FALSE, "medium", "")
Cascade(bearing_diff, overlap, distance_ratio, roads_differ, uturn_mismatch, bt, ot) ==
    IF Rule1(bearing_diff, bt) THEN
        Verdict(TRUE, Rule1Severity(bearing_diff), "Opposite initial direction")
    ELSE IF uturn_mismatch THEN
        Verdict(TRUE, Rule2Severity(distance_ratio), "U-turn route mismatch")
    ELSE IF Rule3(roads_differ, distance_ratio) THEN
        Verdict(TRUE, Rule3Severity(distance_ratio), "Different roads")
    ELSE IF Rule4(bearing_diff, overlap) THEN
        Verdict(TRUE, "high", "Bearing diff + low overlap")
    ELSE IF Rule5(bearing_diff, overlap, ot) THEN
        Verdict(TRUE, "medium", "Bearing diff + low overlap")
    ELSE Verdict(FALSE, "medium", "")

\* The body of the inner loop from line 349 on: the metrics, the verdict and
\* the zone made of them.  index1 and index2 stand for the identity of the two
\* signature objects the zone refers to.
InstabilityZone(i1, j1, sig1, sig2, bt, ot) ==
    LET dist == haversine_distance(sig1.location, sig2.location)
        bearing_diff == BearingDiff(sig1.initial_bearing, sig2.initial_bearing)
        overlap == calculate_route_overlap(sig1.route_geometry, sig2.route_geometry)
        distance_ratio == DistanceRatio(sig1.total_distance, sig2.total_distance)
        roads_differ == RoadsDiffer(sig1.route_roads, sig2.route_roads)
        uturn_mismatch == UturnMismatch(sig1, sig2)
        v == Cascade(bearing_diff, overlap, distance_ratio, roads_differ,
                     uturn_mismatch, bt, ot)
    IN [index1 |-> i1, index2 |-> j1, address1 |-> sig1, address2 |-> sig2,
        distance_apart |-> dist, bearing_difference |-> bearing_diff,
        route_overlap |-> overlap, route_distance_ratio |-> distance_ratio,
        severity |-> v.severity, reason |-> v.reason,
        is_instability |-> v.is_instability]

(***************************************************************************)
(* The spatial index (lines 313-323 and 333-334).  The tree keeps the      *)
(* scaled coordinates and the order in which it stores the points; a ball  *)
(* query walks the points in that order and returns those within r.  With  *)
(* up to leafsize = 10 points the tree is a single leaf in index order;    *)
(* the reverse order stands for the orders a split tree stores.            *)
(***************************************************************************)
ScaledCoordUnscaled(c) == c
ScaledCoord(c) ==
    <<c[1] * ((lng_scale * CmPerM) \div DegUnit),
      c[2] * ((lat_scale * CmPerM) \div DegUnit)>>

KDTree(cs, reversed) ==
    [data |-> [k \in 1..Len(cs) |-> ScaledCoord(cs[k])],
     order |-> [k \in 1..Len(cs) |-> IF reversed THEN Len(cs) + 1 - k ELSE k]]

PlanarSq(p, q) == (p[1] - q[1]) * (p[1] - q[1]) + (p[2] - q[2]) * (p[2] - q[2])

InBallLoose(p, q, r) == PlanarSq(p, q) <= (2 * r * CmPerM) * (2 * r * CmPerM)

InBall(p, q, r) == PlanarSq(p, q) <= (r * CmPerM) * (r * CmPerM)

query_ball_point(t, point, r) ==
    SelectSeq(t.order, LAMBDA j : InBall(t.data[j], point, r))

(***************************************************************************)
(* find_instabilities (lines 304-413).                                     *)
(***************************************************************************)
PairKey(a, b) == <<Min(a, b), Max(a, b)>>

\* lines 337-342: the two guards that skip a neighbour without looking at it
AlreadyHandledSelfOnly(a, b, checked) == a = b
AlreadyHandled(a, b, checked) == a >= b \/ PairKey(a, b) \in checked

\* lines 346-347
NeighbourFailedIgnored(sig2) == FALSE
NeighbourFailed(sig2) == ~sig2.success

\* line 326: the set of checked pairs a call starts with
StaleCheckedPairs(old) == old
NewCheckedPairs(old) == {}

\* lines 313-326; scaled_coords[:, 0] raises IndexError on the 1-dimensional
\* array that np.array([]) is
FindStart ==
    /\ pc = "find"
    /\ IF coords = <<>>
       THEN /\ pc' = "crashed"
            /\ error' = "IndexError, line 320"
            /\ UNCHANGED <<tree, i, instabilities, checked_pairs, evaluated>>
       ELSE /\ tree' = KDTree(coords, leaf_reversed)
            /\ UNCHANGED error
            /\ instabilities' = <<>>
            /\ checked_pairs' = NewCheckedPairs(checked_pairs)
            /\ evaluated' = <<>>
            /\ i' = 1
            /\ pc' = "outer"
    /\ UNCHANGED <<inputs, loopVars,
                   neighbor_indices, exported, run, first_result>>

\* lines 328-334, and the return of line 413
FindOuter ==
    /\ pc = "outer"
    /\ IF i > Len(signatures)
       THEN /\ pc' = "sort"
            /\ UNCHANGED <<i, neighbor_indices>>
       ELSE IF ~signatures[i].success
       THEN /\ i' = i + 1
            /\ UNCHANGED <<pc, neighbor_indices>>
       ELSE /\ neighbor_indices' = query_ball_point(tree, tree.data[i], max_neighbor_distance)
            /\ pc' = "inner"
            /\ UNCHANGED i
    /\ UNCHANGED <<error, inputs, loopVars,
                   tree, checked_pairs, instabilities, evaluated,
                   exported, run, first_result>>

\* lines 336-411: one iteration of the inner loop, or its end
FindInner ==
    /\ pc = "inner"
    /\ IF neighbor_indices = <<>>
       THEN /\ i' = i + 1
            /\ pc' = "outer"
            /\ UNCHANGED <<neighbor_indices, checked_pairs, instabilities, evaluated>>
       ELSE LET j == Head(neighbor_indices)
                zone == InstabilityZone(i, j, signatures[i], signatures[j],
                                        bearing_threshold, overlap_threshold)
            IN /\ neighbor_indices' = Tail(neighbor_indices)
               /\ UNCHANGED <<i, pc>>
               /\ IF AlreadyHandled(i, j, checked_pairs)
                  THEN UNCHANGED <<checked_pairs, instabilities, evaluated>>
                  ELSE /\ checked_pairs' = checked_pairs \cup {PairKey(i, j)}
                       /\ IF NeighbourFailed(signatures[j])
                          THEN UNCHANGED <<instabilities, evaluated>>
                          ELSE /\ evaluated' = Append(evaluated, zone)
                               /\ instabilities' =
                                      IF zone.is_instability
                                      THEN Append(instabilities, zone)
                                      ELSE instabilities
    /\ UNCHANGED <<error, inputs, loopVars,
                   tree, exported, run, first_result>>

(***************************************************************************)
(* The severity sort of main (lines 620-622): list.sort is stable, the key *)
(* is (severity_order[severity], -bearing_difference).                     *)
(***************************************************************************)
severity_order(s) ==
    CASE s = "critical" -> 0
      [] s = "high" -> 1
      [] s = "medium" -> 2

SortKeyAscending(z) == <<severity_order(z.severity), z.bearing_difference>>
SortKey(z) == <<severity_order(z.severity), -z.bearing_difference>>

KeyLe(a, b) == a[1] < b[1] \/ (a[1] = b[1] /\ a[2] <= b[2])

RECURSIVE InsertStable(_, _)
InsertStable(sorted, z) ==
    IF sorted = <<>> THEN <<z>>
    ELSE LET last == sorted[Len(sorted)]
         IN IF KeyLe(SortKey(last), SortKey(z))
            THEN Append(sorted, z)
            ELSE Append(InsertStable(SubSeq(sorted, 1, Len(sorted) - 1), z), last)

RECURSIVE SortFrom(_, _)
SortFrom(sorted, rest) ==
    IF rest = <<>> THEN sorted
    ELSE SortFrom(InsertStable(sorted, Head(rest)), Tail(rest))

SortBySeverity(zs) == SortFrom(<<>>, zs)

SortZones ==
    /\ pc = "sort"
    /\ instabilities' = SortBySeverity(instabilities)
    /\ pc' = "export"
    /\ UNCHANGED <<error, inputs, loopVars,
                   tree, i, neighbor_indices, checked_pairs,
                   evaluated, exported, run, first_result>>

(***************************************************************************)
(* export_results (lines 416-501).  round(x, 1) of a distance in cm is a   *)
(* number of decimetres, round(x, 2) of a fraction a number of hundredths. *)
(***************************************************************************)
RoundDiv(a, b) == (2 * a + b) \div (2 * b)

LineFeature(idx, zone) ==
    [geometry_type |-> "LineString",
     coordinates |-> <<zone.address1.location, zone.address2.location>>,
     type |-> "instability_zone",
     id |-> idx,
     severity |-> zone.severity,
     address1 |-> zone.address1.address,
     address2 |-> zone.address2.address,
     distance_apart_m |-> RoundDiv(zone.distance_apart, CmPerM \div DmPerM),
     bearing_difference |-> zone.bearing_difference,
     route_overlap |-> RoundDiv(100 * zone.route_overlap[1], zone.route_overlap[2]),
     initial_bearing_1 |-> zone.address1.initial_bearing,
     initial_bearing_2 |-> zone.address2.initial_bearing,
     first_road_1 |-> zone.address1.first_road,
     first_road_2 |-> zone.address2.first_road,
     route_roads_1 |-> Prefix(zone.address1.route_roads, 5),
     route_roads_2 |-> Prefix(zone.address2.route_roads, 5),
     route_distance_1 |-> zone.address1.total_distance,
     route_distance_2 |-> zone.address2.total_distance,
     route_distance_ratio |->
         RoundDiv(100 * zone.route_distance_ratio[1], zone.route_distance_ratio[2]),
     has_uturn_1 |-> zone.address1.has_uturn,
     has_uturn_2 |-> zone.address2.has_uturn,
     reason |-> zone.reason]

PointFeatureZeroBased(idx, zone, k, addr) ==
    [geometry_type |-> "Point",
     coordinates |-> addr.location,
     type |-> "instability_address",
     zone_id |-> idx,
     severity |-> zone.severity,
     reason |-> zone.reason,
     address |-> addr.address,
     initial_bearing |-> addr.initial_bearing,
     first_road |-> addr.first_road,
     route_roads |-> Prefix(addr.route_roads, 5),
     route_distance |-> addr.total_distance,
     has_uturn |-> addr.has_uturn,
     pair_index |-> k - 1]

PointFeature(idx, zone, k, addr) ==
    [geometry_type |-> "Point",
     coordinates |-> addr.location,
     type |-> "instability_address",
     zone_id |-> idx,
     severity |-> zone.severity,
     reason |-> zone.reason,
     address |-> addr.address,
     initial_bearing |-> addr.initial_bearing,
     first_road |-> addr.first_road,
     route_roads |-> Prefix(addr.route_roads, 5),
     route_distance |-> addr.total_distance,
     has_uturn |-> addr.has_uturn,
     pair_index |-> k]

RECURSIVE ZoneFeatures(_, _)
ZoneFeatures(zs, k) ==
    IF k > Len(zs) THEN <<>>
    ELSE <<LineFeature(k - 1, zs[k]),
           PointFeature(k - 1, zs[k], 1, zs[k].address1),
           PointFeature(k - 1, zs[k], 2, zs[k].address2)>>
         \o ZoneFeatures(zs, k + 1)

CountSeveritySkipFirst(zs, sev) == Cardinality({k \in 2..Len(zs) : zs[k].severity = sev})

CountSeverity(zs, sev) == Cardinality({k \in 1..Len(zs) : zs[k].severity = sev})

export_results(zs, station_pattern) ==
    [type |-> "FeatureCollection",
     properties |-> [station_pattern |-> station_pattern,
                     total_instabilities |-> Len(zs),
                     critical_count |-> CountSeverity(zs, "critical"),
                     high_count |-> CountSeverity(zs, "high"),
                     medium_count |-> CountSeverity(zs, "medium")],
     features |-> ZoneFeatures(zs, 1)]

NotExported == [type |-> "none"]

\* main, lines 652-656
Export ==
    /\ pc = "export"
    /\ exported' = export_results(instabilities, "05")
    /\ pc' = "done"
    /\ UNCHANGED <<error, inputs, loopVars,
                   tree, i, neighbor_indices, checked_pairs,
                   instabilities, evaluated, run, first_result>>

\* The classifier and the severity sort started a second time on the same
\* signatures, coordinates and thresholds; the first sorted list is kept.
Rerun ==
    /\ pc = "export"
    /\ run = 1
    /\ first_result' = instabilities
    /\ run' = 2
    /\ pc' = "find"
    /\ UNCHANGED <<error, inputs, loopVars,
                   tree, i, neighbor_indices, checked_pairs,
                   instabilities, evaluated, exported>>

(***************************************************************************)
(* Inputs of the classifier.                                               *)
(***************************************************************************)
RoadsA == <<"Connecticut Ave", "Knowles Ave", "Summit Ave", "Plyers Mill Rd">>
RoadsB == <<"Connecticut Ave", "University Blvd">>

GeoNorth3 == <<<<0, 0>>, <<0, 60>>, <<0, 120>>>>
GeoNorth2 == <<<<0, 0>>, <<0, 60>>>>
GeoEast3 == <<<<0, 0>>, <<70, 0>>, <<140, 0>>>>

Profile(b, u, d, r, g) ==
    [ok |-> TRUE, bearing |-> b, uturn |-> u, dist |-> d, roads |-> r, geom |-> g]
FailedProfile ==
    [ok |-> FALSE, bearing |-> 0, uturn |-> FALSE, dist |-> 0, roads |-> <<>>, geom |-> <<>>]

ProfileSignature(id, loc, p) ==
    IF p.ok
    THEN RouteSignature(id, loc, p.bearing,
                        IF p.roads = <<>> THEN "" ELSE p.roads[1], p.roads, p.geom,
                        p.dist, 60, p.uturn, TRUE, "None")
    ELSE FailedSignature(id, loc)

\* signature lists of any order over a few routes, placed along a line
ListProfiles ==
    {Profile(10, FALSE, 1000, RoadsA, GeoNorth3),
     Profile(170, FALSE, 1000, RoadsA, GeoNorth3),
     Profile(350, TRUE, 1500, RoadsA, GeoNorth2),
     Profile(55, FALSE, 1300, RoadsB, GeoEast3),
     Profile(100, FALSE, 1000, RoadsA, GeoEast3),
     FailedProfile}

\* pairs of signatures over the product of the field values
PairProfiles ==
    {Profile(b, u, d, r, g) :
        b \in {10, 40, 55, 160, 170}, u \in BOOLEAN, d \in {1000, 1300, 1500},
        r \in {RoadsA, RoadsB}, g \in {GeoNorth3, GeoEast3}}
    \cup {Profile(b, FALSE, 1000, RoadsA, GeoNorth2) : b \in {10, 40, 55, 160, 170}}
    \cup {FailedProfile}

\* distance between consecutive addresses, in coordinate units of latitude
Spacings == {0, 27, 81}

Configs ==
    {[bt |-> 90, ot |-> <<1, 2>>, md |-> 50],
     [bt |-> 160, ot |-> <<4, 5>>, md |-> 100],
     [bt |-> 30, ot |-> <<1, 2>>, md |-> 100]}

InitInputs(n, profs, spacing, reversed, cfg) ==
    /\ signatures = [k \in 1..n |-> ProfileSignature(k, <<0, (k - 1) * spacing>>, profs[k])]
    /\ coords = [k \in 1..n |-> <<0, (k - 1) * spacing>>]
    /\ leaf_reversed = reversed
    /\ bearing_threshold = cfg.bt
    /\ overlap_threshold = cfg.ot
    /\ max_neighbor_distance = cfg.md

NoFile == [exists |-> FALSE, features |-> <<>>]

InitLocals ==
    /\ error = "none"
    /\ engine = "graphhopper"
    /\ last_answer = <<>>
    /\ test_route = <<>>
    /\ tree = [data |-> <<>>, order |-> <<>>]
    /\ i = 0
    /\ neighbor_indices = <<>>
    /\ checked_pairs = {}
    /\ instabilities = <<>>
    /\ evaluated = <<>>
    /\ exported = NotExported
    /\ run = 1
    /\ first_result = <<>>

NoLimit == [given |-> FALSE, n |-> 0]

\* find_instabilities called on a list of up to MaxAddrs signatures
InitFind ==
    /\ pc = "find"
    /\ address_file = NoFile
    /\ addresses = <<>>
    /\ limit = NoLimit
    /\ feat = 0
    /\ requests = 0
    /\ \E n \in 0..MaxAddrs : \E profs \in [1..n -> ListProfiles] :
         \E spacing \in Spacings : \E reversed \in BOOLEAN : \E cfg \in Configs :
            InitInputs(n, profs, spacing, reversed, cfg)
    /\ InitLocals

\* find_instabilities called on two signatures about 30 m apart
InitPair ==
    /\ pc = "find"
    /\ address_file = NoFile
    /\ addresses = <<>>
    /\ limit = NoLimit
    /\ feat = 0
    /\ requests = 0
    /\ \E profs \in [1..2 -> PairProfiles] :
         \E reversed \in BOOLEAN : \E cfg \in Configs :
            InitInputs(2, profs, 27, reversed, cfg)
    /\ InitLocals

NextFind == FindStart \/ FindOuter \/ FindInner \/ SortZones \/ Rerun \/ Export
SpecFind == InitFind /\ [][NextFind]_vars

NextPair == FindStart \/ FindOuter \/ FindInner \/ SortZones \/ Export
SpecPair == InitPair /\ [][NextPair]_vars

\* find_instabilities called on two signatures whose metrics sweep their
\* ranges: every route of up to MaxRouteLen vertices over a few points that
\* lie within and beyond 50 m of each other, distances (dm) around the 1 m
\* floor and the 1.3 ratio, bearings around the wrap at 180 degrees
MaxRouteLen == 2

RoutePoints == {<<0, 0>>, <<0, 44>>, <<0, 46>>, <<60, 0>>}

RECURSIVE RoutesOfLen(_)
RoutesOfLen(n) ==
    IF n = 0 THEN {<<>>}
    ELSE {Append(r, p) : r \in RoutesOfLen(n - 1), p \in RoutePoints}

Routes == UNION {RoutesOfLen(n) : n \in 0..MaxRouteLen}

Distances == {0, 5, 9, 10, 11, 1000, 1300, 1301, 2000}

\* road sequences of up to MaxRoads names as the extractor leaves them, no
\* name following itself; in their family the two distances are 100 m and
\* 130 m, so that rule 3 alone decides
MaxRoads == 4

RoadNames == {"Connecticut Ave", "Knowles Ave", "University Blvd"}

RECURSIVE RoadsOfLen(_)
RoadsOfLen(n) ==
    IF n = 0 THEN {<<>>}
    ELSE UNION {{Append(r, name) : name \in {x \in RoadNames : r = <<>> \/ x # r[Len(r)]}} :
                   r \in RoadsOfLen(n - 1)}

RoadLists == UNION {RoadsOfLen(n) : n \in 0..MaxRoads}

Bearings == {0, 1, 45, 89, 90, 91, 179, 180, 181, 270, 359}

\* two routes that leave in opposite directions, for addresses placed just
\* inside and just outside the 50 m radius (44 units of latitude are 48.9 m,
\* 45 are 49.95 m in the planar frame and 50.04 m on the sphere, 46 are 51.1 m)
OppositePair ==
    <<Profile(10, FALSE, 1000, RoadsA, GeoNorth3), Profile(170, FALSE, 1000, RoadsA, GeoNorth3)>>

RadiusSpacings == {44, 45, 46}

MetricProfiles ==
    {<<Profile(10, FALSE, 1000, RoadsA, g1), Profile(10, FALSE, 1000, RoadsA, g2)>> :
        g1 \in Routes, g2 \in Routes}
    \cup {<<Profile(10, FALSE, d1, RoadsA, GeoNorth3), Profile(b2, FALSE, d2, RoadsA, GeoNorth3)>> :
        d1 \in Distances, d2 \in Distances, b2 \in {10, 170}}
    \cup {<<Profile(b1, FALSE, 1000, RoadsA, GeoNorth3), Profile(b2, FALSE, 1000, RoadsA, GeoNorth3)>> :
        b1 \in Bearings, b2 \in Bearings}
    \cup {<<Profile(10, FALSE, 1000, r1, GeoNorth3), Profile(10, FALSE, 1300, r2, GeoNorth3)>> :
        r1 \in RoadLists, r2 \in RoadLists}

InitMetrics ==
    /\ pc = "find"
    /\ address_file = NoFile
    /\ addresses = <<>>
    /\ limit = NoLimit
    /\ feat = 0
    /\ requests = 0
    /\ \E reversed \in BOOLEAN : \E cfg \in {c \in Configs : c.bt = 90} :
         \/ \E profs \in MetricProfiles : InitInputs(2, profs, 27, reversed, cfg)
         \/ \E spacing \in RadiusSpacings : InitInputs(2, OppositePair, spacing, reversed, cfg)
    /\ InitLocals

SpecMetrics == InitMetrics /\ [][NextPair]_vars

(***************************************************************************)
(* The routing provider.  A response is what requests.get gives within the *)
(* 10 s timeout: an exception (kind "timeout", "connection_error") or an   *)
(* HTTP answer with a status and a body.  The body is valid JSON or not;   *)
(* when it is, code is OSRM's "code" and items are GraphHopper's "paths"   *)
(* or OSRM's "routes".  An item holds its coordinates, its distance (dm),  *)
(* its duration (ms, which is what GraphHopper's "time" is and what        *)
(* time / 1000 is in seconds), whether "time" is a number, and its steps.  *)
(* A step holds the keys it carries and their values; an instruction text  *)
(* is a sequence of characters.                                            *)
(***************************************************************************)
Step(keys, street_name, name, text) ==
    [keys |-> keys, street_name |-> street_name, name |-> name, text |-> text]

Item(coordinates, distance, time, time_is_number, steps) ==
    [coordinates |-> coordinates, distance |-> distance, time |-> time,
     time_is_number |-> time_is_number, steps |-> steps]

Response(kind, status, json_ok, code, items) ==
    [kind |-> kind, status |-> status, json_ok |-> json_ok, code |-> code, items |-> items]

NoRoute == [none |-> TRUE, geometry |-> <<>>, distance |-> 0, duration |-> 0, steps |-> <<>>]

Route(geometry, distance, duration, steps) ==
    [none |-> FALSE, geometry |-> geometry, distance |-> distance,
     duration |-> duration, steps |-> steps]

\* lines 144-174: every exception raised inside the try block gives None
get_route_graphhopper(resp) ==
    IF resp.kind # "http" THEN NoRoute
    ELSE IF resp.status # 200 THEN NoRoute
    ELSE IF ~resp.json_ok THEN NoRoute
    ELSE IF resp.items = <<>> THEN NoRoute
    ELSE IF ~resp.items[1].time_is_number THEN NoRoute
    ELSE Route(resp.items[1].coordinates, resp.items[1].distance,
               resp.items[1].time, resp.items[1].steps)

\* lines 177-195
get_route_osrm(resp) ==
    IF resp.kind # "http" THEN NoRoute
    ELSE IF resp.status # 200 THEN NoRoute
    ELSE IF ~resp.json_ok THEN NoRoute
    ELSE IF resp.code # "Ok" \/ resp.items = <<>> THEN NoRoute
    ELSE Route(resp.items[1].coordinates, resp.items[1].distance,
               resp.items[1].time, resp.items[1].steps)

\* lines 198-203
get_route(resp, eng) ==
    IF eng = "graphhopper" THEN get_route_graphhopper(resp) ELSE get_route_osrm(resp)

(***************************************************************************)
(* extract_route_signature (lines 206-278).                                *)
(***************************************************************************)
UpperCase == <<"A", "B", "C", "D", "E", "F", "G", "H", "I", "J", "K", "L", "M",
               "N", "O", "P", "Q", "R", "S", "T", "U", "V", "W", "X", "Y", "Z">>
LowerCase == <<"a", "b", "c", "d", "e", "f", "g", "h", "i", "j", "k", "l", "m",
               "n", "o", "p", "q", "r", "s", "t", "u", "v", "w", "x", "y", "z">>

LowerChar(c) ==
    IF \E k \in 1..26 : UpperCase[k] = c
    THEN LowerCase[CHOOSE k \in 1..26 : UpperCase[k] = c]
    ELSE c

lowerUnchanged(text) == text

lower(text) == [k \in 1..Len(text) |-> LowerChar(text[k])]

Contains(text, sub) ==
    \E k \in 0..(Len(text) - Len(sub)) : SubSeq(text, k + 1, k + Len(sub)) = sub

UturnIndicator == <<"u", "-", "t", "u", "r", "n">>

RoadNameStreetOnly(step) ==
    IF "street_name" \in step.keys THEN step.street_name ELSE ""

\* line 251: step.get("street_name", step.get("name", ""))
RoadName(step) ==
    IF "street_name" \in step.keys THEN step.street_name
    ELSE IF "name" \in step.keys THEN step.name
    ELSE ""

\* line 252: step.get("text", "").lower()
StepText(step) == IF "text" \in step.keys THEN lower(step.text) ELSE <<>>

\* line 259: a name is collected when it is not empty and differs from the last one
NewRoadNoCollapse(road_name, route_roads) == road_name # ""

NewRoad(road_name, route_roads) ==
    road_name # "" /\ (route_roads = <<>> \/ road_name # route_roads[Len(route_roads)])

\* lines 246-264: the loop over the steps, from step k on
RECURSIVE WalkSteps(_, _, _, _, _)
WalkSteps(steps, k, first_road, route_roads, has_uturn) ==
    IF k > Len(steps)
    THEN [first_road |-> first_road, route_roads |-> route_roads, has_uturn |-> has_uturn]
    ELSE LET road_name == RoadName(steps[k])
             text == StepText(steps[k])
             uturn == has_uturn \/ Contains(text, UturnIndicator)
             roads == IF NewRoad(road_name, route_roads)
                      THEN Append(route_roads, road_name)
                      ELSE route_roads
             first == IF first_road = "" /\ road_name # "" /\ Len(roads) <= 2
                      THEN road_name
                      ELSE first_road
         IN WalkSteps(steps, k + 1, first, roads, uturn)

\* lines 238-242: p1[1] or p2[1] raises IndexError on a vertex of one number
BearingRaises(geometry) ==
    Len(geometry) >= 2 /\ (Len(geometry[1]) < 2 \/ Len(geometry[2]) < 2)

initial_bearing_to_last(geometry) ==
    IF Len(geometry) >= 2 THEN calculate_bearing(geometry[1], geometry[Len(geometry)]) ELSE 0

initial_bearing_of(geometry) ==
    IF Len(geometry) >= 2 THEN calculate_bearing(geometry[1], geometry[2]) ELSE 0

\* the result of a call: the signature returned, or the exception that left it
extract_route_signature(address_id, location, route) ==
    IF route.none
    THEN [raised |-> FALSE, signature |-> FailedSignature(address_id, location)]
    ELSE IF BearingRaises(route.geometry)
    THEN [raised |-> TRUE, signature |-> FailedSignature(address_id, location)]
    ELSE LET w == WalkSteps(route.steps, 1, "", <<>>, FALSE)
         IN [raised |-> FALSE,
             signature |-> RouteSignature(address_id, location,
                                          initial_bearing_of(route.geometry),
                                          w.first_road, w.route_roads, route.geometry,
                                          route.distance, route.duration, w.has_uturn,
                                          TRUE, "None")]

(***************************************************************************)
(* main (lines 504-656).                                                   *)
(***************************************************************************)
\* lines 60-86 and 535-536: sys.exit(1) when no address file exists
LoadAddresses ==
    /\ pc = "load"
    /\ IF address_file.exists
       THEN /\ addresses' = address_file.features
            /\ pc' = "limit"
            /\ UNCHANGED error
       ELSE /\ pc' = "exited"
            /\ error' = "exit 1: no address data"
            /\ UNCHANGED addresses
    /\ UNCHANGED <<inputs, feat, requests, signatures, coords, last_answer, test_route, tree, i,
                   neighbor_indices, checked_pairs, instabilities, evaluated,
                   exported, run, first_result>>

\* addresses[:n] of Python
Slice(seq, n) ==
    IF n >= 0 THEN SubSeq(seq, 1, Min(n, Len(seq)))
    ELSE SubSeq(seq, 1, Max(Len(seq) + n, 0))

\* lines 538-540: "if args.limit" is false for None and for 0
ApplyLimit ==
    /\ pc = "limit"
    /\ addresses' = IF limit.given /\ limit.n # 0 THEN Slice(addresses, limit.n)
                    ELSE addresses
    /\ pc' = "probe"
    /\ UNCHANGED <<error, inputs, feat, requests, signatures, coords, last_answer, test_route, tree, i,
                   neighbor_indices, checked_pairs, instabilities, evaluated,
                   exported, run, first_result>>

\* line 551: if test_route is None
ProbeNeverFails(route) == FALSE

ProbeFailed(route) == route.none

\* lines 546-570: the test route; sys.exit(1) when get_route returns None
Probe(resp) ==
    /\ pc = "probe"
    /\ requests' = requests + 1
    /\ test_route' = <<get_route(resp, engine)>>
    /\ IF ProbeFailed(get_route(resp, engine))
       THEN /\ pc' = "exited"
            /\ error' = "exit 1: no connection"
            /\ UNCHANGED <<feat, signatures, coords>>
       ELSE /\ pc' = "loop"
            /\ signatures' = <<>>
            /\ coords' = <<>>
            /\ feat' = 1
            /\ UNCHANGED error
    /\ UNCHANGED <<inputs, addresses, last_answer, tree, i, neighbor_indices, checked_pairs,
                   instabilities, evaluated, exported, run, first_result>>

\* line 215: the requests extract_route_signature issues for one address;
\* get_route is called once, whatever it returns
RouteRequestsRetry(route) == IF route.none THEN 2 ELSE 1

RouteRequests(route) == 1

\* lines 572-603: one iteration of the per-address loop.  A feature whose
\* "geometry" is null makes geom.get raise AttributeError; a geometry that is
\* absent or no Point, or has fewer than two coordinates, is skipped.
RouteAddress(resp) ==
    /\ pc = "loop"
    /\ feat <= Len(addresses)
    /\ LET feature == addresses[feat]
           coord == feature.coordinates
           location == <<coord[1], coord[2]>>
           res == extract_route_signature(feat, location, get_route(resp, engine))
       IN IF feature.geometry = "null"
          THEN /\ pc' = "crashed"
               /\ error' = "AttributeError, line 576"
               /\ UNCHANGED <<feat, requests, signatures, coords, last_answer>>
          ELSE IF feature.geometry # "Point" \/ Len(coord) < 2
          THEN /\ feat' = feat + 1
               /\ UNCHANGED <<pc, error, requests, signatures, coords, last_answer>>
          ELSE /\ requests' = requests + RouteRequests(get_route(resp, engine))
               /\ last_answer' = <<resp>>
               /\ IF res.raised
                  THEN /\ pc' = "crashed"
                       /\ error' = "IndexError, line 242"
                       /\ UNCHANGED <<feat, signatures, coords>>
                  ELSE /\ signatures' = Append(signatures, res.signature)
                       /\ coords' = Append(coords, location)
                       /\ feat' = feat + 1
                       /\ UNCHANGED <<pc, error>>
    /\ UNCHANGED <<inputs, addresses, test_route, tree, i, neighbor_indices, checked_pairs,
                   instabilities, evaluated, exported, run, first_result>>

\* lines 605-618: the loop is over, find_instabilities is called
EndLoop ==
    /\ pc = "loop"
    /\ feat > Len(addresses)
    /\ pc' = "find"
    /\ UNCHANGED <<error, inputs, loopVars, tree, i, neighbor_indices,
                   checked_pairs, instabilities, evaluated, exported, run,
                   first_result>>

(***************************************************************************)
(* Inputs of a run.                                                        *)
(***************************************************************************)
TextContinue == <<"C", "o", "n", "t", "i", "n", "u", "e">>
TextUturn == <<"M", "a", "k", "e", " ", "a", " ", "U", "-", "t", "u", "r", "n">>

GhStep(street_name, text) == Step({"street_name", "text"}, street_name, "", text)
OsrmStep(name) == Step({"name"}, "", name, <<>>)

GeoSouth2 == <<<<0, 0>>, <<0, -60>>>>
GeoBadVertex == <<<<0>>, <<0, 60>>>>

GhItems ==
    {Item(GeoNorth3, 1000, 60000, TRUE,
          <<GhStep("", TextContinue), GhStep("Connecticut Ave", TextContinue),
            GhStep("Knowles Ave", TextContinue)>>),
     Item(GeoSouth2, 1500, 90000, TRUE,
          <<GhStep("Connecticut Ave", TextContinue), GhStep("Connecticut Ave", TextUturn),
            GhStep("University Blvd", TextContinue)>>),
     Item(<<>>, 0, 0, TRUE, <<>>),
     Item(GeoNorth3, 1000, 60000, FALSE, <<>>),
     Item(GeoBadVertex, 1000, 60000, TRUE, <<GhStep("Connecticut Ave", TextContinue)>>)}

OsrmItems ==
    {Item(GeoNorth3, 1000, 60000, TRUE,
          <<OsrmStep(""), OsrmStep("Connecticut Ave"), OsrmStep("Knowles Ave")>>),
     Item(GeoSouth2, 1500, 90000, TRUE,
          <<OsrmStep("Connecticut Ave"), OsrmStep("University Blvd")>>),
     Item(GeoBadVertex, 1000, 60000, TRUE, <<OsrmStep("Connecticut Ave")>>)}

Failures ==
    {Response("timeout", 0, FALSE, "", <<>>),
     Response("connection_error", 0, FALSE, "", <<>>),
     Response("http", 500, TRUE, "", <<>>),
     Response("http", 200, FALSE, "", <<>>),
     Response("http", 200, TRUE, "NoRoute", <<>>)}

Responses(eng) ==
    Failures \cup
    {Response("http", 200, TRUE, "Ok", <<it>>) :
        it \in IF eng = "graphhopper" THEN GhItems ELSE OsrmItems}

\* the feature at position k of the address file; the coordinates of a
\* geometry that is no Point are never read (line 577) and are left out
PointFeatureAt(k) == [geometry |-> "Point", coordinates |-> <<0, (k - 1) * 27>>]
Features(k) ==
    {PointFeatureAt(k),
     [geometry |-> "Polygon", coordinates |-> <<>>],
     [geometry |-> "Point", coordinates |-> <<0>>],
     [geometry |-> "absent", coordinates |-> <<>>],
     [geometry |-> "null", coordinates |-> <<>>]}

RECURSIVE FeatureLists(_)
FeatureLists(n) ==
    IF n = 0 THEN {<<>>}
    ELSE {Append(fs, f) : fs \in FeatureLists(n - 1), f \in Features(n)}

AddressFiles ==
    {NoFile} \cup
    UNION {{[exists |-> TRUE, features |-> fs] : fs \in FeatureLists(n)} : n \in 0..MaxAddrs}

Limits == {NoLimit, [given |-> TRUE, n |-> 0], [given |-> TRUE, n |-> 2],
           [given |-> TRUE, n |-> -1]}

Init ==
    /\ pc = "load"
    /\ error = "none"
    /\ engine \in {"graphhopper", "osrm"}
    /\ address_file \in AddressFiles
    /\ limit \in (IF engine = "graphhopper" THEN Limits ELSE {NoLimit})
    /\ \E cfg \in {c \in Configs : c.bt = 90} :
          /\ bearing_threshold = cfg.bt
          /\ overlap_threshold = cfg.ot
          /\ max_neighbor_distance = cfg.md
    /\ leaf_reversed = FALSE
    /\ addresses = <<>>
    /\ feat = 0
    /\ requests = 0
    /\ signatures = <<>>
    /\ coords = <<>>
    /\ last_answer = <<>>
    /\ test_route = <<>>
    /\ tree = [data |-> <<>>, order |-> <<>>]
    /\ i = 0
    /\ neighbor_indices = <<>>
    /\ checked_pairs = {}
    /\ instabilities = <<>>
    /\ evaluated = <<>>
    /\ exported = NotExported
    /\ run = 1
    /\ first_result = <<>>

Next ==
    \/ LoadAddresses
    \/ ApplyLimit
    \/ \E resp \in Responses(engine) : Probe(resp)
    \/ \E resp \in Responses(engine) : RouteAddress(resp)
    \/ EndLoop
    \/ FindStart
    \/ FindOuter
    \/ FindInner
    \/ SortZones
    \/ Export

Spec == Init /\ [][Next]_vars

(***************************************************************************)
(* The per-address loop on one address whose answer sweeps the step lists  *)
(* and the geometries a provider can send: steps of both backend shapes,   *)
(* with and without road name, with and without a U-turn text in several   *)
(* spellings, and geometries of no, one, two and three vertices.           *)
(***************************************************************************)
MaxSteps == 3

TextUturnLower == <<"u", "-", "t", "u", "r", "n">>
TextUturnUpper == <<"U", "-", "T", "U", "R", "N", " ", "n", "o", "w">>
TextTurn == <<"T", "u", "r", "n", " ", "u", "p">>

Steps ==
    {GhStep("", TextContinue),
     GhStep("Connecticut Ave", TextContinue),
     GhStep("Knowles Ave", TextUturn),
     GhStep("", TextUturnUpper),
     OsrmStep("Connecticut Ave"),
     OsrmStep(""),
     Step({"street_name", "name"}, "", "Knowles Ave", <<>>),
     Step({"text"}, "", "", TextUturnLower),
     Step({"text"}, "", "", TextTurn),
     Step({}, "", "", <<>>)}

RECURSIVE StepListsOfLen(_)
StepListsOfLen(n) ==
    IF n = 0 THEN {<<>>}
    ELSE {Append(l, st) : l \in StepListsOfLen(n - 1), st \in Steps}

StepLists == UNION {StepListsOfLen(n) : n \in 0..MaxSteps}

Geometries == UNION {RoutesOfLen(n) : n \in 0..(MaxRouteLen + 1)}

ExtractResponses ==
    {Response("http", 200, TRUE, "Ok", <<Item(GeoNorth3, 1000, 60000, TRUE, steps)>>) :
        steps \in StepLists}
    \cup {Response("http", 200, TRUE, "Ok", <<Item(g, 1000, 60000, TRUE, <<>>)>>) :
        g \in Geometries}

InitExtract ==
    /\ pc = "loop"
    /\ error = "none"
    /\ engine = "graphhopper"
    /\ address_file = [exists |-> TRUE, features |-> <<PointFeatureAt(1)>>]
    /\ addresses = address_file.features
    /\ limit = NoLimit
    /\ test_route = <<Route(GeoNorth3, 1000, 60000, <<>>)>>
    /\ feat = 1
    /\ requests = 1
    /\ signatures = <<>>
    /\ coords = <<>>
    /\ last_answer = <<>>
    /\ \E cfg \in {c \in Configs : c.bt = 90} :
          /\ bearing_threshold = cfg.bt
          /\ overlap_threshold = cfg.ot
          /\ max_neighbor_distance = cfg.md
    /\ leaf_reversed = FALSE
    /\ tree = [data |-> <<>>, order |-> <<>>]
    /\ i = 0
    /\ neighbor_indices = <<>>
    /\ checked_pairs = {}
    /\ instabilities = <<>>
    /\ evaluated = <<>>
    /\ exported = NotExported
    /\ run = 1
    /\ first_result = <<>>

NextExtract ==
    \/ (pc = "loop" /\ \E resp \in ExtractResponses : RouteAddress(resp))
    \/ EndLoop
    \/ FindStart
    \/ FindOuter
    \/ FindInner
    \/ SortZones
    \/ Export

SpecExtract == InitExtract /\ [][NextExtract]_vars

(***************************************************************************)
(* Properties of find_instabilities and of the severity sort.              *)
(***************************************************************************)
Returned == pc \in {"sort", "export", "done"}

Succeeded(k) == signatures[k].success

ZoneAt(a, b) == {k \in 1..Len(instabilities) :
                    instabilities[k].index1 = a /\ instabilities[k].index2 = b}

\* the planar neighbour test as the claim states it: (lng*85000, lat*111000),
\* here in cm per coordinate unit
PlanarNear(a, b) ==
    LET dx == 85 * (coords[a][1] - coords[b][1])
        dy == 111 * (coords[a][2] - coords[b][2])
    IN dx * dx + dy * dy <= (100 * max_neighbor_distance) * (100 * max_neighbor_distance)

\* the metrics of the pair (a, b), a the lower index
Bd(a, b) == BearingDiff(signatures[a].initial_bearing, signatures[b].initial_bearing)
Ov(a, b) == calculate_route_overlap(signatures[a].route_geometry, signatures[b].route_geometry)
Ratio(a, b) == DistanceRatio(signatures[a].total_distance, signatures[b].total_distance)
Mismatch(a, b) == signatures[a].has_uturn # signatures[b].has_uturn
Differ(a, b) == RoadsDiffer(signatures[a].route_roads, signatures[b].route_roads)

\* the five rules as section 4.4 of the specification words them
RuleHolds(r, a, b) ==
    CASE r = 1 -> Bd(a, b) >= bearing_threshold
      [] r = 2 -> Mismatch(a, b)
      [] r = 3 -> Differ(a, b) /\ 10 * Ratio(a, b)[1] > 12 * Ratio(a, b)[2]
      [] r = 4 -> Bd(a, b) >= 45 /\ 10 * Ov(a, b)[1] < 4 * Ov(a, b)[2]
      [] r = 5 -> Bd(a, b) >= 30
                  /\ Ov(a, b)[1] * overlap_threshold[2] < overlap_threshold[1] * Ov(a, b)[2]

SomeRule(a, b) == \E r \in 1..5 : RuleHolds(r, a, b)

FirstRule(a, b) == CHOOSE r \in 1..5 :
                       RuleHolds(r, a, b) /\ \A q \in 1..(r - 1) : ~RuleHolds(q, a, b)

RuleSeverity(r, a, b) ==
    CASE r = 1 -> IF Bd(a, b) >= 150 THEN "critical" ELSE "high"
      [] r = 2 -> IF 10 * Ratio(a, b)[1] > 13 * Ratio(a, b)[2] THEN "critical" ELSE "high"
      [] r = 3 -> IF 10 * Ratio(a, b)[1] > 14 * Ratio(a, b)[2] THEN "high" ELSE "medium"
      [] r = 4 -> "high"
      [] r = 5 -> "medium"

RuleReason(r) ==
    CASE r = 1 -> "Opposite initial direction"
      [] r = 2 -> "U-turn route mismatch"
      [] r = 3 -> "Different roads"
      [] r = 4 -> "Bearing diff + low overlap"
      [] r = 5 -> "Bearing diff + low overlap"

PairOf(e) == <<e.index1, e.index2>>

EvaluatedPairs == {PairOf(evaluated[k]) : k \in 1..Len(evaluated)}

\* C1: no zone has an address1 or address2 with success = false, whether the
\* failed signature was met as the outer element or as a neighbour.
C1_NoFailedSignatureInZone ==
    \A k \in 1..Len(instabilities) :
        /\ instabilities[k].address1.success
        /\ instabilities[k].address2.success
        /\ Succeeded(instabilities[k].index1)
        /\ Succeeded(instabilities[k].index2)

\* a finished run that produced a zone, and in which a failed signature was
\* reached as the neighbour of a successful one and as an outer element
C1_Witness ==
    /\ pc = "sort"
    /\ instabilities # <<>>
    /\ \E s, f \in 1..Len(signatures) :
          /\ s < f /\ Succeeded(s) /\ ~Succeeded(f)
          /\ PlanarNear(s, f)
          /\ <<s, f>> \in checked_pairs
    /\ \E f \in 1..Len(signatures) : ~Succeeded(f) /\ f < Len(signatures)

\* C2: when find_instabilities has returned, the metrics and the cascade were
\* evaluated exactly once for every pair a < b of successful signatures whose
\* scaled planar coordinates are at most max_neighbor_distance apart, and for
\* no other pair; such a pair has a zone if and only if some rule matches.
C2_EvaluatedExactlyTheNeighbourPairs ==
    Returned =>
        /\ \A a, b \in 1..Len(signatures) :
              LET times == Cardinality({k \in 1..Len(evaluated) :
                                           PairOf(evaluated[k]) \in {<<a, b>>, <<b, a>>}})
              IN a < b =>
                    IF Succeeded(a) /\ Succeeded(b) /\ PlanarNear(a, b)
                    THEN /\ times = 1
                         /\ (ZoneAt(a, b) \cup ZoneAt(b, a) # {}) <=> SomeRule(a, b)
                    ELSE times = 0 /\ ZoneAt(a, b) = {} /\ ZoneAt(b, a) = {}
        /\ \A a \in 1..Len(signatures) : <<a, a>> \notin EvaluatedPairs /\ ZoneAt(a, a) = {}

\* a finished run with two evaluated pairs, one flagged and one not, and a
\* pair of successful signatures too far apart to be evaluated
C2_Witness ==
    /\ pc = "sort"
    /\ Len(evaluated) >= 2
    /\ \E a, b \in 1..Len(signatures) :
          a < b /\ Succeeded(a) /\ Succeeded(b) /\ ~PlanarNear(a, b)
    /\ \E e \in EvaluatedPairs : ZoneAt(e[1], e[2]) = {}
    /\ \E e \in EvaluatedPairs : ZoneAt(e[1], e[2]) # {}

\* C3: the zone list never holds two zones for the same unordered index pair,
\* nor a zone pairing a signature with itself, whatever the order of the
\* signatures and of the neighbour lists.
C3_AtMostOneZonePerPair ==
    /\ \A k \in 1..Len(instabilities) : instabilities[k].index1 # instabilities[k].index2
    /\ \A k, m \in 1..Len(instabilities) :
          k # m => {instabilities[k].index1, instabilities[k].index2}
                   # {instabilities[m].index1, instabilities[m].index2}

\* three zones found with the neighbour lists in descending index order
C3_Witness ==
    /\ pc = "sort"
    /\ Len(instabilities) >= 3
    /\ Len(tree.order) >= 3
    /\ leaf_reversed

\* C4: for every evaluated pair the zone carries the severity and the reason
\* of the lowest-numbered rule whose condition holds, and there is no zone
\* when no rule's condition holds.
C4_FirstMatchWins ==
        \A e \in EvaluatedPairs :
            IF SomeRule(e[1], e[2])
            THEN /\ Cardinality(ZoneAt(e[1], e[2])) = 1
                 /\ \A k \in ZoneAt(e[1], e[2]) :
                       /\ instabilities[k].severity = RuleSeverity(FirstRule(e[1], e[2]), e[1], e[2])
                       /\ instabilities[k].reason = RuleReason(FirstRule(e[1], e[2]))
            ELSE ZoneAt(e[1], e[2]) = {}

\* a pair on which rule 1 fails and rules 2, 3 and 4 all hold
C4_Witness ==
    /\ pc = "sort"
    /\ EvaluatedPairs = {<<1, 2>>}
    /\ ~RuleHolds(1, 1, 2)
    /\ RuleHolds(2, 1, 2) /\ RuleHolds(3, 1, 2) /\ RuleHolds(4, 1, 2)
    /\ Len(instabilities) = 1
    /\ instabilities[1].reason = "U-turn route mismatch"

\* C5: an evaluated pair with bearing_difference >= bearing_threshold yields
\* exactly one zone, critical when bearing_difference >= 150 and high
\* otherwise, with the reason of the opposite initial direction, whatever the
\* other metrics are.
C5_Rule1 ==
        \A e \in EvaluatedPairs :
            Bd(e[1], e[2]) >= bearing_threshold =>
                /\ Cardinality(ZoneAt(e[1], e[2])) = 1
                /\ \A k \in ZoneAt(e[1], e[2]) :
                      /\ instabilities[k].severity =
                            (IF Bd(e[1], e[2]) >= 150 THEN "critical" ELSE "high")
                      /\ instabilities[k].reason = "Opposite initial direction"
                      /\ instabilities[k].bearing_difference = Bd(e[1], e[2])

\* the default threshold 90, initial bearings 10 and 170, a U-turn on one
\* route only: exactly one zone, critical
C5_Witness ==
    /\ pc = "sort"
    /\ bearing_threshold = 90
    /\ Len(signatures) = 2
    /\ signatures[1].success /\ signatures[2].success
    /\ signatures[1].initial_bearing = 10 /\ signatures[2].initial_bearing = 170
    /\ signatures[1].has_uturn /\ ~signatures[2].has_uturn
    /\ Len(instabilities) = 1
    /\ instabilities[1].severity = "critical"
    /\ instabilities[1].bearing_difference = 160

\* C6: a critical zone with the reason of rule 1 has
\* bearing_difference >= bearing_threshold, whatever the threshold is.
C6_CriticalRule1AboveThreshold ==
    \A k \in 1..Len(instabilities) :
        (instabilities[k].severity = "critical"
         /\ instabilities[k].reason = "Opposite initial direction")
            => instabilities[k].bearing_difference >= bearing_threshold

\* threshold 160: a critical rule-1 zone at difference 160
C6_Witness ==
    /\ pc = "sort"
    /\ bearing_threshold > 150
    /\ \E k \in 1..Len(instabilities) :
          /\ instabilities[k].severity = "critical"
          /\ instabilities[k].reason = "Opposite initial direction"
          /\ instabilities[k].bearing_difference = bearing_threshold

\* C7 as claimed: an evaluated pair with a U-turn on one route only and
\* route_distance_ratio > 1.3 yields a critical zone whose reason is the
\* U-turn mismatch.
C7_Original ==
        \A e \in EvaluatedPairs :
            (Mismatch(e[1], e[2]) /\ 10 * Ratio(e[1], e[2])[1] > 13 * Ratio(e[1], e[2])[2]) =>
                \E k \in ZoneAt(e[1], e[2]) :
                    /\ instabilities[k].severity = "critical"
                    /\ instabilities[k].reason = "U-turn route mismatch"

\* C7 amended: the same, for pairs with bearing_difference < bearing_threshold
\* (rule 1 takes a pair at or above the threshold).
C7_UturnMismatchBelowThreshold ==
        \A e \in EvaluatedPairs :
            (/\ Mismatch(e[1], e[2])
             /\ 10 * Ratio(e[1], e[2])[1] > 13 * Ratio(e[1], e[2])[2]
             /\ Bd(e[1], e[2]) < bearing_threshold) =>
                /\ Cardinality(ZoneAt(e[1], e[2])) = 1
                /\ \A k \in ZoneAt(e[1], e[2]) :
                      /\ instabilities[k].severity = "critical"
                      /\ instabilities[k].reason = "U-turn route mismatch"

\* a U-turn on one route only, ratio exactly 1.5, bearings 30 degrees apart
C7_Witness ==
    /\ pc = "sort"
    /\ EvaluatedPairs = {<<1, 2>>}
    /\ Mismatch(1, 2)
    /\ Ratio(1, 2) = <<1500, 1000>>
    /\ Bd(1, 2) = 30 /\ bearing_threshold = 90
    /\ Len(instabilities) = 1
    /\ instabilities[1].severity = "critical"
    /\ instabilities[1].reason = "U-turn route mismatch"

Rank(sev) == IF sev = "critical" THEN 0 ELSE IF sev = "high" THEN 1 ELSE 2

\* C8: the zone list handed to export_results is in ascending severity rank
\* and, within one severity, in descending bearing_difference; the exported
\* zone ids 0..n-1 follow that order.
C8_ExportedListSorted ==
    /\ pc \in {"export", "done"} =>
          \A k \in 1..(Len(instabilities) - 1) :
              \/ Rank(instabilities[k].severity) < Rank(instabilities[k + 1].severity)
              \/ /\ instabilities[k].severity = instabilities[k + 1].severity
                 /\ instabilities[k].bearing_difference
                        >= instabilities[k + 1].bearing_difference
    /\ pc = "done" =>
          /\ Len(exported.features) = 3 * Len(instabilities)
          /\ \A k \in 1..Len(instabilities) :
                /\ exported.features[3 * k - 2].id = k - 1
                /\ exported.features[3 * k - 2].severity = instabilities[k].severity
                /\ exported.features[3 * k - 2].bearing_difference
                       = instabilities[k].bearing_difference
                /\ exported.features[3 * k - 2].coordinates
                       = <<instabilities[k].address1.location,
                           instabilities[k].address2.location>>

\* an exported list of three zones with two severities and, within one
\* severity, two different bearing differences
C8_Witness ==
    /\ pc = "done"
    /\ Len(instabilities) >= 3
    /\ \E k \in 1..(Len(instabilities) - 1) :
          instabilities[k].severity # instabilities[k + 1].severity
    /\ \E k \in 1..(Len(instabilities) - 1) :
          /\ instabilities[k].severity = instabilities[k + 1].severity
          /\ instabilities[k].bearing_difference > instabilities[k + 1].bearing_difference

C10_ProviderNeverAbortsBatch ==
    (pc = "crashed" /\ feat \in 1..Len(addresses)) => error # "IndexError, line 242"

(***************************************************************************)
(* Properties of the per-address loop of main.                             *)
(***************************************************************************)
\* a payload whose fields do not have the documented shape
MalformedPayload(resp) ==
    /\ resp.kind = "http"
    /\ resp.status = 200
    /\ \/ ~resp.json_ok
       \/ /\ resp.items # <<>>
          /\ \/ ~resp.items[1].time_is_number
             \/ BearingRaises(resp.items[1].coordinates)

ProviderFailure(resp) ==
    \/ resp.kind # "http"
    \/ resp.status # 200
    \/ MalformedPayload(resp)

AttemptedTotal == Len(signatures)
SucceededTotal == Cardinality({k \in 1..Len(signatures) : signatures[k].success})

\* C11: when the provider fails for an address (network error, non-success
\* status, malformed payload), a signature with success = FALSE, a non-empty
\* error, bearing 0 and empty roads and geometry is appended for that
\* address, so it counts as attempted and not as succeeded.
C11_FailureGivesFailedSignature ==
    (last_answer # <<>> /\ ProviderFailure(last_answer[1])) =>
        /\ AttemptedTotal = requests - 1
        /\ ~signatures[AttemptedTotal].success
        /\ signatures[AttemptedTotal].error # ""
        /\ signatures[AttemptedTotal].initial_bearing = 0
        /\ signatures[AttemptedTotal].route_roads = <<>>
        /\ signatures[AttemptedTotal].route_geometry = <<>>
        /\ SucceededTotal <= AttemptedTotal - 1

\* C12: when the connectivity probe fails the run exits with status 1 after
\* that one request: no per-address request is issued and nothing is
\* classified or exported; a per-address request is only ever issued after
\* the probe returned a route.
C12_FailedProbeAborts ==
    /\ (test_route # <<>> /\ test_route[1].none) =>
           /\ pc = "exited"
           /\ error = "exit 1: no connection"
           /\ requests = 1
           /\ last_answer = <<>>
           /\ signatures = <<>>
           /\ evaluated = <<>>
           /\ instabilities = <<>>
           /\ exported = NotExported
    /\ requests > 1 => (test_route # <<>> /\ ~test_route[1].none)

\* the probe failed while two addresses were waiting to be routed
C12_Witness ==
    /\ test_route # <<>>
    /\ test_route[1].none
    /\ pc = "exited"
    /\ Len(addresses) >= 2
    /\ \A k \in 1..Len(addresses) : addresses[k].geometry = "Point"

\* a feature main routes: a Point with at least two coordinates (lines 577-581)
UsablePoint(feature) == feature.geometry = "Point" /\ Len(feature.coordinates) >= 2

NoUsableInput ==
    \/ ~address_file.exists
    \/ \A k \in 1..Len(address_file.features) : ~UsablePoint(address_file.features[k])

\* C13: with no address file, an empty feature list or no usable point
\* feature, the run stops before any route request (the probe included) is
\* issued and never reaches the classifier.
C13_EmptyInputAbortsBeforeWork ==
    NoUsableInput =>
        /\ requests = 0
        /\ pc \in {"load", "limit", "probe", "exited"}

\* the features the per-address loop has gone past
Processed == IF pc = "loop" THEN 1..(feat - 1) ELSE {}

\* C14: a feature without valid point geometry (geometry missing, null, no
\* Point, fewer than two coordinates) is skipped: it costs no route request
\* and gives no signature, and the loop never stops at such a feature.
C14_MalformedFeatureSkipped ==
    /\ pc = "loop" =>
          LET usable == Cardinality({k \in Processed : UsablePoint(addresses[k])})
          IN /\ AttemptedTotal = usable
             /\ requests = 1 + usable
    /\ (pc = "crashed" /\ feat \in 1..Len(addresses)) => UsablePoint(addresses[feat])

(***************************************************************************)
(* Properties of the metrics of an evaluated pair.                         *)
(***************************************************************************)
Evaluated == {evaluated[k] : k \in 1..Len(evaluated)}

IsOne(frac) == frac[2] > 0 /\ frac[1] = frac[2]
IsZero(frac) == frac[2] > 0 /\ frac[1] = 0

\* C15 as claimed: identical routes have overlap 1.0, for every route
C15_Original ==
    \A e \in Evaluated :
        e.address1.route_geometry = e.address2.route_geometry => IsOne(e.route_overlap)

\* C15: identical routes with at least one vertex have overlap 1.0
C15_IdenticalRoutesOverlapOne ==
    \A e \in Evaluated :
        (e.address1.route_geometry = e.address2.route_geometry
         /\ e.address1.route_geometry # <<>>) => IsOne(e.route_overlap)

\* an evaluated pair of identical routes whose two vertices are more than
\* 50 m from each other
C15_Witness ==
    \E e \in Evaluated :
        /\ e.address1.route_geometry = e.address2.route_geometry
        /\ Len(e.address1.route_geometry) = 2
        /\ ~WithinThreshold(e.address1.route_geometry[1], e.address1.route_geometry[2],
                            OverlapThresholdM)
        /\ IsOne(e.route_overlap)

\* the overlap as the specification words it: the vertices of A within 50 m
\* of some vertex of B, each once, over the vertices of A
NearVertices(A, B) ==
    {k \in 1..Len(A) : \E m \in 1..Len(B) : haversine_distance(A[k], B[m]) <= OverlapThresholdM * CmPerM}

\* C16: the overlap of an evaluated pair is the number of vertices of the
\* lower-indexed signature's route within 50 m of some vertex of the
\* higher-indexed one's, each counted once, over the number of its vertices;
\* it lies in [0,1] and is 0.0 when no vertex of A is within 50 m of B.
C16_OverlapIsFractionOfNearVertices ==
    \A e \in Evaluated :
        LET A == e.address1.route_geometry
            B == e.address2.route_geometry
            num == e.route_overlap[1]
            den == e.route_overlap[2]
        IN /\ e.index1 < e.index2
           /\ A = signatures[e.index1].route_geometry
           /\ B = signatures[e.index2].route_geometry
           /\ den > 0
           /\ 0 <= num /\ num <= den
           /\ A # <<>> => num * Len(A) = Cardinality(NearVertices(A, B)) * den
           /\ NearVertices(A, B) = {} => num = 0

\* an evaluated pair where one vertex of A is near both vertices of B, the
\* other near none, and the overlap the other way round would differ
C16_Witness ==
    \E e \in Evaluated :
        LET A == e.address1.route_geometry
            B == e.address2.route_geometry
        IN /\ Len(A) = 2 /\ Len(B) = 2
           /\ Cardinality(NearVertices(A, B)) = 1
           /\ \E k \in NearVertices(A, B) :
                 \A m \in 1..2 : WithinThreshold(A[k], B[m], OverlapThresholdM)
           /\ Cardinality(NearVertices(B, A)) = 2
           /\ e.route_overlap = <<1, 2>>

Zones == {instabilities[k] : k \in 1..Len(instabilities)}

Longer(z) == Max(z.address1.total_distance, z.address2.total_distance)
Shorter(z) == Min(z.address1.total_distance, z.address2.total_distance)

ShortestAngle(a, b) == Min(Abs(a - b), 360 - Abs(a - b))

\* C18: for every evaluated pair with both initial bearings in [0,360),
\* bearing_difference lies in [0,180], is min(|a-b|, 360-|a-b|), and is the
\* same for (a,b) and (b,a).
C18_BearingDifferenceIsShortestAngle ==
    \A e \in Evaluated :
        LET a == e.address1.initial_bearing
            b == e.address2.initial_bearing
        IN (a \in 0..359 /\ b \in 0..359) =>
              /\ e.bearing_difference \in 0..180
              /\ e.bearing_difference = ShortestAngle(a, b)
              /\ e.bearing_difference = ShortestAngle(b, a)

\* an evaluated pair whose bearings lie on both sides of north
C18_Witness ==
    \E e \in Evaluated :
        /\ e.address1.initial_bearing = 359
        /\ e.address2.initial_bearing = 1
        /\ e.bearing_difference = 2

(***************************************************************************)
(* Properties of export_results.                                           *)
(***************************************************************************)
Exported == exported # NotExported

\* the point feature f carries the fields of the signature addr
PointOf(f, addr) ==
    /\ f.geometry_type = "Point"
    /\ f.type = "instability_address"
    /\ f.coordinates = addr.location
    /\ f.address = addr.address
    /\ f.initial_bearing = addr.initial_bearing
    /\ f.first_road = addr.first_road
    /\ f.route_roads = SubSeq(addr.route_roads, 1, Min(5, Len(addr.route_roads)))
    /\ f.route_distance = addr.total_distance
    /\ f.has_uturn = addr.has_uturn

\* C19: the exported collection holds three consecutive features for the
\* zone at position k (from 0) of the list: a LineString with id k joining
\* the locations of address1 and address2, then two Points with zone_id k,
\* pair_index 1 and 2, the zone's severity and the fields of address1 and
\* address2; it holds 3*n features for n zones.
C19_ThreeFeaturesPerZone ==
    Exported =>
        /\ Len(exported.features) = 3 * Len(instabilities)
        /\ \A k \in 0..(Len(instabilities) - 1) :
              LET zone == instabilities[k + 1]
                  line == exported.features[3 * k + 1]
                  p1 == exported.features[3 * k + 2]
                  p2 == exported.features[3 * k + 3]
              IN /\ line.geometry_type = "LineString"
                 /\ line.type = "instability_zone"
                 /\ line.id = k
                 /\ line.coordinates = <<zone.address1.location, zone.address2.location>>
                 /\ p1.zone_id = k /\ p1.pair_index = 1 /\ p1.severity = zone.severity
                 /\ PointOf(p1, zone.address1)
                 /\ p2.zone_id = k /\ p2.pair_index = 2 /\ p2.severity = zone.severity
                 /\ PointOf(p2, zone.address2)

\* an export of two zones or more, the second joining two signatures that
\* differ in bearing
C19_Witness ==
    /\ Exported
    /\ Len(instabilities) >= 2
    /\ Len(exported.features) = 3 * Len(instabilities)
    /\ exported.features[5].initial_bearing # exported.features[6].initial_bearing

\* the exported line features with a given severity
LinesWith(sev) ==
    {k \in 1..Len(exported.features) :
        /\ exported.features[k].type = "instability_zone"
        /\ exported.features[k].severity = sev}

\* C20: in the exported collection critical_count, high_count and
\* medium_count are the numbers of zones with that severity, every zone has
\* one of these three severities, and the counts add up to
\* total_instabilities.
C20_SeverityCountsAddUp ==
    Exported =>
        /\ exported.properties.critical_count = Cardinality(LinesWith("critical"))
        /\ exported.properties.high_count = Cardinality(LinesWith("high"))
        /\ exported.properties.medium_count = Cardinality(LinesWith("medium"))
        /\ \A z \in Zones : z.severity \in {"critical", "high", "medium"}
        /\ exported.properties.total_instabilities = Len(instabilities)
        /\ exported.properties.critical_count + exported.properties.high_count
              + exported.properties.medium_count = exported.properties.total_instabilities

\* an export with a critical, a high and a medium zone
C20_Witness ==
    /\ Exported
    /\ exported.properties.critical_count = 1
    /\ exported.properties.high_count = 1
    /\ exported.properties.medium_count = 1

\* the positions of the features main routes
ValidAddresses == {k \in 1..Len(addresses) : UsablePoint(addresses[k])}

Classifying == pc \in {"find", "outer", "inner", "sort", "export", "done"}

\* C21: when classification starts, a run over n valid point addresses has
\* issued n + 1 route requests (the probe and one per address, failed ones
\* included) and holds n signatures, one for each valid address.
C21_OneRequestOneSignaturePerAddress ==
    Classifying =>
        /\ requests = Cardinality(ValidAddresses) + 1
        /\ Len(signatures) = Cardinality(ValidAddresses)
        /\ {signatures[k].address_id : k \in 1..Len(signatures)} = ValidAddresses

\* classification starts over three valid addresses, one of them failed
C21_Witness ==
    /\ pc = "find"
    /\ Cardinality(ValidAddresses) = 3
    /\ requests = 4
    /\ SucceededTotal = 2

(***************************************************************************)
(* Properties of extract_route_signature.                                  *)
(***************************************************************************)
\* the steps of the answer the latest signature was extracted from
AnsweredSteps == last_answer[1].items[1].steps
AnsweredGeometry == last_answer[1].items[1].coordinates
Extracted == last_answer # <<>> /\ Len(signatures) = 1
Sig == signatures[1]

\* the non-empty road names of a step list, in order
RECURSIVE NamesOf(_)
NamesOf(steps) ==
    IF steps = <<>> THEN <<>>
    ELSE (IF RoadName(Head(steps)) = "" THEN <<>> ELSE <<RoadName(Head(steps))>>)
         \o NamesOf(Tail(steps))

\* a sequence of names with every run of equal consecutive names reduced to one
RECURSIVE Collapse(_)
Collapse(names) ==
    IF Len(names) <= 1 THEN names
    ELSE IF names[1] = names[2] THEN Collapse(Tail(names))
    ELSE <<names[1]>> \o Collapse(Tail(names))

IndicatorUpper == <<"U", "-", "T", "U", "R", "N">>

HasIndicator(text) ==
    \E p \in 1..Len(text) :
        /\ p + 5 <= Len(text)
        /\ \A q \in 1..6 : text[p + q - 1] \in {UturnIndicator[q], IndicatorUpper[q]}

StepHasIndicator(step) == "text" \in step.keys /\ HasIndicator(step.text)

\* C23: has_uturn is true exactly when the text of at least one step, at
\* any position and with or without road name, contains "u-turn" in any
\* mix of upper and lower case.
C23_UturnIffSomeStepSaysSo ==
    Extracted =>
        (Sig.has_uturn <=> \E k \in 1..Len(AnsweredSteps) : StepHasIndicator(AnsweredSteps[k]))

\* a signature with has_uturn from three steps of which only the first,
\* which has no road name and spells the indicator in capitals, says so
C23_Witness ==
    /\ Extracted
    /\ Sig.has_uturn
    /\ Len(AnsweredSteps) = 3
    /\ AnsweredSteps[1] = GhStep("", TextUturnUpper)
    /\ ~StepHasIndicator(AnsweredSteps[2])
    /\ AnsweredSteps[3] = Step({"text"}, "", "", TextTurn)

\* C24: a route whose geometry has fewer than two vertices still gives a
\* signature with success = TRUE and initial_bearing 0; with two vertices or
\* more initial_bearing is the bearing from the first vertex to the second,
\* whatever the later vertices are.
C24_BearingFromFirstTwoVertices ==
    Extracted =>
        /\ Sig.success
        /\ Sig.route_geometry = AnsweredGeometry
        /\ Len(AnsweredGeometry) < 2 => Sig.initial_bearing = 0
        /\ Len(AnsweredGeometry) >= 2 =>
               Sig.initial_bearing = calculate_bearing(AnsweredGeometry[1], AnsweredGeometry[2])

\* a signature from a geometry that goes east and then turns back north-west
C24_Witness ==
    /\ Extracted
    /\ AnsweredGeometry = <<<<0, 0>>, <<60, 0>>, <<0, 44>>>>
    /\ Sig.initial_bearing = 90

\* the two sequences differ at one of their first three positions: one has
\* an entry there and the other has not, or the two entries differ
TriplesDiffer(r1, r2) ==
    \E k \in 1..3 :
        \/ (k <= Len(r1)) # (k <= Len(r2))
        \/ (k <= Len(r1) /\ k <= Len(r2) /\ r1[k] # r2[k])

\* rule 3 alone decides the pair: rules 1 and 2 do not match, the ratio is
\* above 1.2 and rules 4 and 5 do not match
Rule3Decides(e) ==
    /\ e.bearing_difference < SlightBearing
    /\ e.bearing_difference < bearing_threshold
    /\ e.address1.has_uturn = e.address2.has_uturn
    /\ FracLt(<<12, 10>>, e.route_distance_ratio)

\* C25: roads_differ is true exactly when the two road sequences differ
\* within their first three entries, shorter sequences compared up to
\* their length; later entries do not count, and the order of the two
\* routes does not matter.  It is read off the verdict of the pairs that
\* rule 3 alone decides.
C25_RoadsDifferOnFirstThree ==
    \A e \in Evaluated :
        Rule3Decides(e) =>
            /\ e.is_instability <=> TriplesDiffer(e.address1.route_roads, e.address2.route_roads)
            /\ e.is_instability <=> TriplesDiffer(e.address2.route_roads, e.address1.route_roads)
            /\ e.is_instability => e.reason = "Different roads"

\* a pair rule 3 decides whose four-name sequences differ in the fourth
\* name only, and is not flagged
C25_Witness ==
    \E e \in Evaluated :
        /\ Rule3Decides(e)
        /\ Len(e.address1.route_roads) = 4
        /\ Len(e.address2.route_roads) = 4
        /\ e.address1.route_roads # e.address2.route_roads
        /\ SubSeq(e.address1.route_roads, 1, 3) = SubSeq(e.address2.route_roads, 1, 3)
        /\ ~e.is_instability

RoadSet == {Sig.route_roads[k] : k \in 1..Len(Sig.route_roads)}

\* the non-empty names a step carries under the two keys
NamesCarried(step) ==
    ((IF "street_name" \in step.keys THEN {step.street_name} ELSE {})
     \cup (IF "name" \in step.keys THEN {step.name} ELSE {})) \ {""}

\* C26 as claimed: every non-empty name a step carries under "street_name"
\* or under "name" is in route_roads
C26_Original ==
    Extracted =>
        \A k \in 1..Len(AnsweredSteps) : NamesCarried(AnsweredSteps[k]) \subseteq RoadSet

\* C26: a non-empty name under "street_name" is in route_roads; a non-empty
\* name under "name" is in route_roads when the step has no "street_name"
\* key; and route_roads holds nothing but names the steps carry.
C26_EitherKeyStreetNameFirst ==
    Extracted =>
        /\ \A k \in 1..Len(AnsweredSteps) :
              LET step == AnsweredSteps[k]
              IN /\ ("street_name" \in step.keys /\ step.street_name # "") =>
                        step.street_name \in RoadSet
                 /\ ("street_name" \notin step.keys /\ "name" \in step.keys /\ step.name # "") =>
                        step.name \in RoadSet
        /\ RoadSet \subseteq UNION {NamesCarried(AnsweredSteps[k]) : k \in 1..Len(AnsweredSteps)}

\* a signature from a step of each backend shape, both names collected
C26_Witness ==
    /\ Extracted
    /\ AnsweredSteps = <<OsrmStep("Connecticut Ave"), GhStep("Knowles Ave", TextUturn)>>
    /\ Sig.route_roads = <<"Connecticut Ave", "Knowles Ave">>

(***************************************************************************)
(* Properties of main's handling of its input.                            *)
(***************************************************************************)
Limited == address_file.exists /\ pc \notin {"load", "limit", "exited"}

\* C27: with a limit N the run analyses the first N features of the input
\* and no more, for every integer N, 0 included; without a limit it
\* analyses all loaded features.
C27_LimitKeepsFirstN ==
    Limited =>
        IF limit.given
        THEN /\ Len(addresses) <= limit.n
             /\ addresses = SubSeq(address_file.features, 1, Len(addresses))
        ELSE addresses = address_file.features

\* C28: the signature list and the coordinate list have the same length
\* and signatures[k].location is coords[k] for every k, also when malformed
\* features were skipped; the point the spatial index stores at k is that
\* location, so a neighbour index names the signature of that address.
C28_SignaturesAlignedWithCoords ==
    /\ Len(signatures) = Len(coords)
    /\ \A k \in 1..Len(signatures) : signatures[k].location = coords[k]
    /\ pc \in {"outer", "inner"} =>
          /\ Len(tree.data) = Len(signatures)
          /\ \A k \in 1..Len(signatures) : tree.data[k] = ScaledCoord(signatures[k].location)
          /\ \A k \in 1..Len(neighbor_indices) : neighbor_indices[k] \in 1..Len(signatures)

\* the neighbour query has answered for two signatures that come from the
\* second and third feature, the first feature having been skipped
C28_Witness ==
    /\ pc = "inner"
    /\ Len(addresses) = 3
    /\ ~UsablePoint(addresses[1])
    /\ Len(signatures) = 2
    /\ signatures[1].location = addresses[2].coordinates
    /\ signatures[2].location = addresses[3].coordinates
    /\ ~signatures[2].success
    /\ Len(neighbor_indices) = 2

\* C29 as claimed: the haversine distance of the two addresses of a zone is
\* at most max_neighbor_distance
C29_Original ==
    \A z \in Zones : z.distance_apart <= max_neighbor_distance * CmPerM

\* C29: the two addresses of a zone are within max_neighbor_distance of
\* each other in the planar frame (85000 m per degree of longitude, 111000 m
\* per degree of latitude); their haversine distance can be larger, by less
\* than 2 % at the latitude of the area.
C29_ZoneWithinPlanarRadius ==
    \A z \in Zones :
        /\ PlanarNear(z.index1, z.index2)
        /\ z.distance_apart = haversine_distance(coords[z.index1], coords[z.index2])
        /\ z.distance_apart * 100 <= max_neighbor_distance * CmPerM * 102

\* a zone whose addresses are 49.95 m apart in the planar frame and more
\* than 50 m apart on the sphere
C29_Witness ==
    \E z \in Zones :
        /\ max_neighbor_distance = 50
        /\ PlanarNear(z.index1, z.index2)
        /\ z.distance_apart > max_neighbor_distance * CmPerM

\* the zones made by rule 4 or rule 5
BearingOverlapZones == {z \in Zones : z.reason = "Bearing diff + low overlap"}

\* C30: a zone of rule 4 or 5 has a bearing difference of at least 30 and
\* strictly below bearing_threshold; a rule-4 zone (high) has a bearing
\* difference of at least 45 and an overlap below 0.4; a rule-5 zone
\* (medium) has an overlap below overlap_threshold and a bearing difference
\* below 45 or an overlap of at least 0.4.  With bearing_threshold at most
\* 30 there is no such zone.
C30_BearingOverlapZoneRanges ==
    /\ \A z \in BearingOverlapZones :
          /\ z.bearing_difference >= SlightBearing
          /\ z.bearing_difference < bearing_threshold
          /\ z.severity \in {"high", "medium"}
          /\ z.severity = "high" =>
                /\ z.bearing_difference >= ModerateBearing
                /\ FracLt(z.route_overlap, <<4, 10>>)
          /\ z.severity = "medium" =>
                /\ FracLt(z.route_overlap, overlap_threshold)
                /\ \/ z.bearing_difference < ModerateBearing
                   \/ FracLe(<<4, 10>>, z.route_overlap)
    /\ bearing_threshold <= SlightBearing => BearingOverlapZones = {}

\* a medium zone of rule 5 whose bearing difference would have sufficed for
\* rule 4 and whose overlap is between 0.4 and overlap_threshold
C30_Witness ==
    \E z \in BearingOverlapZones :
        /\ z.severity = "medium"
        /\ z.bearing_difference >= ModerateBearing
        /\ FracLe(<<4, 10>>, z.route_overlap)

====
